---- MODULE Spec2Model ----
(***************************************************************************)
(* A model of nickel.rs' router (src/src/router.rs) and of its error type  *)
(* NickelError (src/src/nickel_error.rs).                                  *)
(*                                                                         *)
(* Strings are sequences of one-character strings.  A regular expression   *)
(* pattern is a sequence of pattern tokens: the characters of the pattern, *)
(* except that the bracket expression with its star, [a-zA-Z0-9_-]*, is    *)
(* kept as the single token CLASS_STAR.                                    *)
(***************************************************************************)
EXTENDS Integers, Sequences, FiniteSets, TLC

VARIABLES
    routes,      \* Router.routes: the Vec<Route>
    status,      \* "running", or "failed" once fail! has unwound the task
    call,        \* the last call made on the router and its arguments
    ret,         \* what match_route returned: an index into routes, 0 for None
    registered,  \* history: the (path, handler) pairs whose add_route returned
    route_path,  \* the argument of create_regex in the matcher tests
    text,        \* the argument of is_match in the matcher tests
    regex,       \* the Regex create_regex returned
    verdict,     \* what is_match returned
    pc,          \* where the matcher test stands
    conn,        \* the response stream of the connection: state, status, sent
    error,       \* the NickelError of the request: not built, live, or moved
    ecall,       \* the constructor call that built error, with its arguments
    end_ret,     \* what NickelError::end returned
    end_calls,   \* how many times the stream's end operation has been called
    io           \* the outcome the transport gave the last end operation

router_vars == <<routes, status, call, ret, registered>>
regex_vars == <<route_path, text, regex, verdict, pc>>
error_vars == <<conn, error, ecall, end_ret, end_calls, io>>
vars == <<routes, status, call, ret, registered, route_path, text, regex, verdict, pc,
          conn, error, ecall, end_ret, end_calls, io>>

----------------------------------------------------------------------------
(* Bounds *)

MaxTemplateLen == 3
MaxPathLen == 4
MaxRoutes == 2
MaxRoutePathLen == 2

(* The characters the model draws templates and paths from.  "a" stands for
   the letters, digits, "_" and "-"; "." and ")" are characters the regex
   syntax gives a meaning to; no string holds a newline. *)
TemplateChars == {"/", ":", "a", ".", ")"}
PathChars == {"/", "a", "."}

RECURSIVE Strings(_, _)
Strings(chars, n) ==
    IF n = 0 THEN {<<>>}
    ELSE LET shorter == Strings(chars, n - 1)
         IN  shorter \cup {Append(s, c) : s \in {t \in shorter : Len(t) = n - 1}, c \in chars}

Templates == Strings(TemplateChars, MaxTemplateLen)
Paths == Strings(PathChars, MaxPathLen)

(* What the router is given. *)
RouteTemplates ==
    { <<"/", "a">>, <<"/", ":">>, <<"/", ":", "a">>, <<"/", ".">>,
      <<"a", "/", ":">>, <<"/", "a", ")">> }
RoutePaths == Strings(PathChars, MaxRoutePathLen)
Handlers == {"handler1", "handler2"}

None == 0

----------------------------------------------------------------------------
(* The regex crate, as far as create_regex uses it *)

(* The characters of the class [a-zA-Z0-9_-]. *)
ClassChars == {"a", "b", "z", "A", "Z", "0", "9", "_", "-"}

CLASS_STAR == "[a-zA-Z0-9_-]*"

VALID_SEQUENCE == <<".", CLASS_STAR>>
REGEX_START == <<"^">>
REGEX_END == <<"$">>

(* The end of the match of [a-zA-Z0-9_-]* that starts at s[i]: greedy. *)
RECURSIVE name_end(_, _)
name_end(s, i) ==
    IF i <= Len(s) /\ s[i] \in ClassChars THEN name_end(s, i + 1) ELSE i

(* regex.replace_all(route_path, VALID_SEQUENCE) for the regex :[a-zA-Z0-9_-]*
   every leftmost, non-overlapping match is replaced, the rest is copied. *)
RECURSIVE replace_from(_, _)
replace_from(s, i) ==
    IF i > Len(s) THEN <<>>
    ELSE IF s[i] = ":" THEN VALID_SEQUENCE \o replace_from(s, name_end(s, i + 1))
    ELSE <<s[i]>> \o replace_from(s, i + 1)

replace_all(s) == replace_from(s, 1)

(* Regex::new: the pattern is parsed as a regular expression.  Of the
   characters of the model, ")" without an opening parenthesis is a syntax
   error; every other pattern compiles, to the pattern itself. *)
Regex_new(pattern) ==
    IF \E k \in 1..Len(pattern) : pattern[k] = ")"
    THEN [ok |-> FALSE, re |-> <<>>]
    ELSE [ok |-> TRUE, re |-> pattern]

(* Whether re[k..] matches text from position pos on: "^" and "$" are the
   empty assertions at the start and the end of the text, "." is any
   character but the newline, CLASS_STAR any run of class characters, every
   other token the character it is. *)
RECURSIVE match_at(_, _, _, _)
match_at(re, k, txt, pos) ==
    IF k > Len(re) THEN TRUE
    ELSE CASE re[k] = "^" -> pos = 1 /\ match_at(re, k + 1, txt, pos)
           [] re[k] = "$" -> pos = Len(txt) + 1 /\ match_at(re, k + 1, txt, pos)
           [] re[k] = "." ->
                /\ pos <= Len(txt)
                /\ txt[pos] # "\n"
                /\ match_at(re, k + 1, txt, pos + 1)
           [] re[k] = CLASS_STAR ->
                \/ /\ pos <= Len(txt)
                   /\ txt[pos] \in ClassChars
                   /\ match_at(re, k, txt, pos + 1)
                \/ match_at(re, k + 1, txt, pos)
           [] OTHER ->
                /\ pos <= Len(txt)
                /\ txt[pos] = re[k]
                /\ match_at(re, k + 1, txt, pos + 1)

(* Regex::is_match: the regex matches somewhere in the text. *)
is_match(re, txt) == \E start \in 1..(Len(txt) + 1) : match_at(re, 1, txt, start)

----------------------------------------------------------------------------
(* RouteRegexFactory *)

(* create_regex: [ok |-> FALSE] stands for fail!("{}", err). *)
create_regex(path) ==
    Regex_new(REGEX_START \o replace_all(path) \o REGEX_END)

----------------------------------------------------------------------------
(* Router *)

Router_new == <<>>

Route(path, matcher, handler) == [path |-> path, matcher |-> matcher, handler |-> handler]

(* find as it would be were the table searched from its end: the last item
   the predicate holds of. *)
RECURSIVE find_last(_, _, _)
find_last(rs, i, path) ==
    IF i > Len(rs) THEN None
    ELSE LET later == find_last(rs, i + 1, path)
         IN  IF later # None THEN later
             ELSE IF is_match(rs[i].matcher, path) THEN i
             ELSE None

(* Iterator::find over self.routes.iter(): the first item the predicate
   holds of, as its index; None when the iterator is exhausted. *)
RECURSIVE find(_, _, _)
find(rs, i, path) ==
    IF i > Len(rs) THEN None
    ELSE IF is_match(rs[i].matcher, path) THEN i
    ELSE find(rs, i + 1, path)

(* add_route as it would be were a failed compilation skipped in silence. *)
add_route_skipping(path, handler) ==
    LET matcher == create_regex(path)
    IN  IF matcher.ok
        THEN /\ routes' = Append(routes, Route(path, matcher.re, handler))
             /\ status' = "running"
             /\ ret' = None
        ELSE /\ status' = "running"
             /\ UNCHANGED <<routes, ret>>

(* add_route as it would be were the route inserted at the front. *)
add_route_in_front(path, handler) ==
    LET matcher == create_regex(path)
    IN  IF matcher.ok
        THEN /\ routes' = <<Route(path, matcher.re, handler)>> \o routes
             /\ status' = "running"
             /\ ret' = None
        ELSE /\ status' = "failed"
             /\ UNCHANGED <<routes, ret>>

add_route(path, handler) ==
    LET matcher == create_regex(path)
    IN  IF matcher.ok
        THEN /\ routes' = Append(routes, Route(path, matcher.re, handler))
             /\ status' = "running"
             /\ ret' = None
        ELSE /\ status' = "failed"
             /\ UNCHANGED <<routes, ret>>

match_route(path) ==
    /\ ret' = find(routes, 1, path)
    /\ UNCHANGED <<routes, status>>

AddRoute ==
    /\ status = "running"
    /\ Len(routes) < MaxRoutes
    /\ \E path \in RouteTemplates, handler \in Handlers :
          /\ call' = [op |-> "add_route", path |-> path, handler |-> handler]
          /\ add_route(path, handler)
          /\ registered' = IF status' = "running"
                           THEN Append(registered, <<path, handler>>)
                           ELSE registered
    /\ UNCHANGED regex_vars
    /\ UNCHANGED error_vars

MatchRoute ==
    /\ status = "running"
    /\ \E path \in RoutePaths :
          /\ call' = [op |-> "match_route", path |-> path, handler |-> "none"]
          /\ match_route(path)
    /\ UNCHANGED <<registered>>
    /\ UNCHANGED regex_vars
    /\ UNCHANGED error_vars

----------------------------------------------------------------------------
(* Response: the response stream NickelError is built on.  A stream is Fresh,
   then Started (the status line and the headers are written), then Ended. *)

NoStream == "None"

Response_fresh == [id |-> "res", state |-> "Fresh", status |-> 200, sent |-> 0]

(* stream.set(status_code) *)
Response_set(res, status_code) == [res EXCEPT !.status = status_code]

(* stream.start(): writes the status the response holds and gives the
   Streaming response, or fails with the transport's diagnostic, which it
   gives as a NickelError that holds no stream. *)
Response_start(res, started, diag) ==
    IF started
    THEN [ok |-> TRUE,
          res |-> [res EXCEPT !.state = "Started", !.sent = res.status],
          err |-> [held |-> "none", stream |-> NoStream, message |-> ""]]
    ELSE [ok |-> FALSE,
          res |-> res,
          err |-> [held |-> "live", stream |-> NoStream, message |-> diag]]

(* s.end(): flushes and closes the stream; the stream is gone whether the
   flush succeeded or not. *)
Response_end(res, io_ok) ==
    [res |-> [res EXCEPT !.state = "Ended"],
     result |-> IF io_ok THEN "Ok(())" ELSE "Err(io)"]

----------------------------------------------------------------------------
(* NickelError *)

InternalServerError == 500

StatusCodes == {400, 404, InternalServerError}
Messages == {"", "Error Parsing JSON", "File not found"}
Diagnostics == {"Failed to start response: broken pipe",
                "Failed to start response: connection reset"}
(* Values of types that are Into<Box<Error>>, with their description(). *)
Errors == {[kind |-> "json", description |-> "Error Parsing JSON"],
           [kind |-> "io", description |-> "File not found"]}

NoError == [held |-> "none", stream |-> NoStream, message |-> ""]

(* NickelError::new as it would be were the stream started before the status
   code is set. *)
NickelError_new_start_first(stream, message, status_code, started, diag) ==
    LET start == Response_start(stream, started, diag)
    IN  IF start.ok
        THEN [conn |-> Response_set(start.res, status_code),
              error |-> [held |-> "live", stream |-> start.res.id, message |-> message]]
        ELSE [conn |-> start.res, error |-> start.err]

(* NickelError::new as it would be were the failure of start reported under
   the message given to new. *)
NickelError_new_keeping_message(stream, message, status_code, started, diag) ==
    LET set == Response_set(stream, status_code)
        start == Response_start(set, started, diag)
    IN  IF start.ok
        THEN [conn |-> start.res,
              error |-> [held |-> "live", stream |-> start.res.id, message |-> message]]
        ELSE [conn |-> start.res,
              error |-> [held |-> "live", stream |-> NoStream, message |-> message]]

(* NickelError::new: the NickelError and the stream as the call leaves it. *)
NickelError_new(stream, message, status_code, started, diag) ==
    LET set == Response_set(stream, status_code)
        start == Response_start(set, started, diag)
    IN  IF start.ok
        THEN [conn |-> start.res,
              error |-> [held |-> "live", stream |-> start.res.id, message |-> message]]
        ELSE [conn |-> start.res, error |-> start.err]

(* NickelError::without_response *)
NickelError_without_response(message) ==
    [held |-> "live", stream |-> NoStream, message |-> message]

(* NickelError::end as it would be were the stream dropped without s.end(). *)
NickelError_end_dropping(self, stream, io_ok) ==
    [self |-> [self EXCEPT !.held = "moved"],
     conn |-> stream,
     ret |-> IF self.stream # NoStream THEN "Some(Ok(()))" ELSE "None",
     ended |-> 0]

(* NickelError::end as it would be were the outcome of s.end() discarded. *)
NickelError_end_discarding(self, stream, io_ok) ==
    IF self.stream # NoStream
    THEN LET e == Response_end(stream, io_ok)
         IN  [self |-> [self EXCEPT !.held = "moved"],
              conn |-> e.res,
              ret |-> "Some(Ok(()))",
              ended |-> 1]
    ELSE [self |-> [self EXCEPT !.held = "moved"],
          conn |-> stream,
          ret |-> "None",
          ended |-> 0]

(* NickelError::end(self): self is moved into the call. *)
NickelError_end(self, stream, io_ok) ==
    IF self.stream # NoStream
    THEN LET e == Response_end(stream, io_ok)
         IN  [self |-> [self EXCEPT !.held = "moved"],
              conn |-> e.res,
              ret |-> "Some(" \o e.result \o ")",
              ended |-> 1]
    ELSE [self |-> [self EXCEPT !.held = "moved"],
          conn |-> stream,
          ret |-> "None",
          ended |-> 0]

(* impl From<(Response, (StatusCode, T))> for NickelError *)
From_status_error(res, errorcode, err, started, diag) ==
    NickelError_new(res, err.description, errorcode, started, diag)

(* impl From<(Response, String)> for NickelError *)
From_string(res, msg, started, diag) ==
    NickelError_new(res, msg, InternalServerError, started, diag)

(* impl From<(Response, StatusCode)> for NickelError *)
From_status(res, code, started, diag) ==
    NickelError_new(res, "", code, started, diag)

Built(op, message, status_code, started, diag, r) ==
    /\ ecall' = [op |-> op, message |-> message, status_code |-> status_code,
                 started |-> started, diag |-> diag]
    /\ conn' = r.conn
    /\ error' = r.error
    /\ UNCHANGED <<end_ret, end_calls, io>>

(* A handler fails and hands its Fresh response to NickelError::new. *)
New ==
    /\ error.held = "none"
    /\ conn.state = "Fresh"
    /\ \E message \in Messages, status_code \in StatusCodes,
          started \in BOOLEAN, diag \in Diagnostics :
          Built("new", message, status_code, started, diag,
                NickelError_new(conn, message, status_code, started, diag))
    /\ UNCHANGED router_vars
    /\ UNCHANGED regex_vars

FromStatusError ==
    /\ error.held = "none"
    /\ conn.state = "Fresh"
    /\ \E err \in Errors, errorcode \in StatusCodes,
          started \in BOOLEAN, diag \in Diagnostics :
          Built("from_status_error", err.description, errorcode, started, diag,
                From_status_error(conn, errorcode, err, started, diag))
    /\ UNCHANGED router_vars
    /\ UNCHANGED regex_vars

FromString ==
    /\ error.held = "none"
    /\ conn.state = "Fresh"
    /\ \E msg \in Messages, started \in BOOLEAN, diag \in Diagnostics :
          Built("from_string", msg, InternalServerError, started, diag,
                From_string(conn, msg, started, diag))
    /\ UNCHANGED router_vars
    /\ UNCHANGED regex_vars

FromStatus ==
    /\ error.held = "none"
    /\ conn.state = "Fresh"
    /\ \E code \in StatusCodes, started \in BOOLEAN, diag \in Diagnostics :
          Built("from_status", "", code, started, diag,
                From_status(conn, code, started, diag))
    /\ UNCHANGED router_vars
    /\ UNCHANGED regex_vars

(* The unsafe constructor: the response is left where it is. *)
WithoutResponse ==
    /\ error.held = "none"
    /\ \E message \in Messages :
          Built("without_response", message, 0, FALSE, "",
                [conn |-> conn, error |-> NickelError_without_response(message)])
    /\ UNCHANGED router_vars
    /\ UNCHANGED regex_vars

(* Whoever holds the NickelError ends it; the transport decides whether the
   flush succeeds. *)
End ==
    /\ error.held = "live"
    /\ \E io_ok \in BOOLEAN :
          LET r == NickelError_end(error, conn, io_ok)
          IN  /\ error' = r.self
              /\ conn' = r.conn
              /\ end_ret' = r.ret
              /\ end_calls' = end_calls + r.ended
              /\ io' = IF io_ok THEN "Ok(())" ELSE "Err(io)"
    /\ UNCHANGED ecall
    /\ UNCHANGED router_vars
    /\ UNCHANGED regex_vars

NoCall == [op |-> "none", message |-> "", status_code |-> 0, started |-> FALSE, diag |-> ""]

ErrorIdle ==
    /\ conn = Response_fresh
    /\ error = NoError
    /\ ecall = NoCall
    /\ end_ret = "pending"
    /\ end_calls = 0
    /\ io = "none"

RegexIdle ==
    /\ route_path = <<>>
    /\ text = <<>>
    /\ regex = <<>>
    /\ verdict = FALSE
    /\ pc = "idle"

Init ==
    /\ routes = Router_new
    /\ status = "running"
    /\ call = [op |-> "new", path |-> <<>>, handler |-> "none"]
    /\ ret = None
    /\ registered = <<>>
    /\ RegexIdle
    /\ ErrorIdle

Next == AddRoute \/ MatchRoute

Spec == Init /\ [][Next]_vars

----------------------------------------------------------------------------
(* The matcher on its own: create_regex(route_path).is_match(text), as the
   test creates_valid_regex_for_var_routes runs it, for every template and
   every path of the bounds. *)

CreateRegex ==
    /\ pc = "start"
    /\ LET r == create_regex(route_path)
       IN  IF r.ok
           THEN regex' = r.re /\ pc' = "compiled"
           ELSE regex' = regex /\ pc' = "failed"
    /\ UNCHANGED <<route_path, text, verdict>>
    /\ UNCHANGED router_vars
    /\ UNCHANGED error_vars

IsMatch ==
    /\ pc = "compiled"
    /\ verdict' = is_match(regex, text)
    /\ pc' = "matched"
    /\ UNCHANGED <<route_path, text, regex>>
    /\ UNCHANGED router_vars
    /\ UNCHANGED error_vars

RouterIdle ==
    /\ routes = Router_new
    /\ status = "idle"
    /\ call = [op |-> "new", path |-> <<>>, handler |-> "none"]
    /\ ret = None
    /\ registered = <<>>

InitRegex ==
    /\ RouterIdle
    /\ ErrorIdle
    /\ route_path \in Templates
    /\ text \in Paths
    /\ regex = <<>>
    /\ verdict = FALSE
    /\ pc = "start"

NextRegex == CreateRegex \/ IsMatch

SpecRegex == InitRegex /\ [][NextRegex]_vars

----------------------------------------------------------------------------
(* One request that fails: a NickelError is built, then ended. *)

InitError ==
    /\ RouterIdle
    /\ RegexIdle
    /\ ErrorIdle

NextError == New \/ FromStatusError \/ FromString \/ FromStatus \/ WithoutResponse \/ End

SpecError == InitError /\ [][NextError]_vars

----------------------------------------------------------------------------
(* Paths and templates as sequences of segments *)

HasSlash(s) == \E i \in 1..Len(s) : s[i] = "/"
FirstSlash(s) == CHOOSE i \in 1..Len(s) : s[i] = "/" /\ \A j \in 1..(i - 1) : s[j] # "/"

RECURSIVE Segments(_)
Segments(s) ==
    IF ~HasSlash(s) THEN <<s>>
    ELSE LET i == FirstSlash(s)
         IN  <<SubSeq(s, 1, i - 1)>> \o Segments(SubSeq(s, i + 1, Len(s)))

IsName(seg) == \A i \in 1..Len(seg) : seg[i] \in ClassChars
IsValue(seg) == Len(seg) >= 1 /\ IsName(seg)
IsPlaceholder(seg) == Len(seg) >= 1 /\ seg[1] = ":" /\ IsName(Tail(seg))
HasColon(seg) == \E i \in 1..Len(seg) : seg[i] = ":"
HasPlaceholder(tpl) == \E i \in 1..Len(Segments(tpl)) : IsPlaceholder(Segments(tpl)[i])

(* Every segment is a placeholder or is made of letters, digits, "_", "-". *)
PlainTemplate(tpl) ==
    \A i \in 1..Len(Segments(tpl)) :
        IsPlaceholder(Segments(tpl)[i]) \/ IsName(Segments(tpl)[i])

(* Every segment is a placeholder or holds no ":" at all. *)
SegmentedTemplate(tpl) ==
    \A i \in 1..Len(Segments(tpl)) :
        IsPlaceholder(Segments(tpl)[i]) \/ ~HasColon(Segments(tpl)[i])

(* p is tpl with every placeholder replaced by a value. *)
Instance(p, tpl) ==
    LET ps == Segments(p)
        ts == Segments(tpl)
    IN  /\ Len(ps) = Len(ts)
        /\ \A i \in 1..Len(ts) :
              IF IsPlaceholder(ts[i]) THEN IsValue(ps[i]) ELSE ps[i] = ts[i]

----------------------------------------------------------------------------
(* Properties of the router (Spec) *)

Matching(path) == {i \in 1..Len(routes) : is_match(routes[i].matcher, path)}
Lowest(S) == CHOOSE i \in S : \A j \in S : i <= j

(* C1: match_route returns the entry of lowest index whose matcher matches
   the path, and None exactly when no entry's matcher matches it (on an empty
   table, always). *)
C1_first_match ==
    call.op = "match_route" =>
        IF Matching(call.path) = {} THEN ret = None
        ELSE ret = Lowest(Matching(call.path))

(* A lookup that two entries of different templates and handlers match. *)
C1_witness ==
    /\ call.op = "match_route"
    /\ ret = 1
    /\ 2 \in Matching(call.path)
    /\ routes[1].path # routes[2].path
    /\ routes[1].handler # routes[2].handler

(* C9: add_route fails exactly when create_regex fails; then the task fails
   and no entry is appended; when create_regex succeeds one entry is added. *)
C9_register_fails_iff_compile_fails ==
    [][call'.op = "add_route" =>
          LET ok == create_regex(call'.path).ok
          IN  /\ (status' = "failed") <=> ~ok
              /\ ~ok => routes' = routes
              /\ ok => Len(routes') = Len(routes) + 1]_vars

(* A registration that failed on a table that holds entries. *)
C9_witness ==
    /\ call.op = "add_route"
    /\ status = "failed"
    /\ Len(routes) >= 1
    /\ ~create_regex(call.path).ok

(* C10: the table is the sequence of the entries registered with success, in
   the order of their registration, each with the matcher compiled from its
   template; match_route does not change it. *)
C10_table_is_registration_log ==
    /\ Len(routes) = Len(registered)
    /\ \A i \in 1..Len(routes) :
          routes[i] = Route(registered[i][1],
                            create_regex(registered[i][1]).re,
                            registered[i][2])

(* A lookup on a table of two different entries or more. *)
C10_witness ==
    /\ call.op = "match_route"
    /\ Len(routes) >= 2
    /\ routes[1] # routes[2]
    /\ routes = [i \in 1..Len(routes) |->
                    Route(registered[i][1], create_regex(registered[i][1]).re,
                          registered[i][2])]

----------------------------------------------------------------------------
(* Properties of the matcher (SpecRegex) *)

(* C2: a placeholder matches only a non-empty run of letters, digits, "_" and
   "-", never a "/": an accepted path has no more segments than the template
   and a value at every placeholder position. *)
C2_placeholder_is_one_segment ==
    (pc = "matched" /\ verdict /\ PlainTemplate(route_path)) =>
        LET ps == Segments(text)
            ts == Segments(route_path)
        IN  /\ Len(ps) <= Len(ts)
            /\ \A i \in 1..Len(ts) :
                  IsPlaceholder(ts[i]) => (i <= Len(ps) /\ IsValue(ps[i]))

(* C3: the matcher of a template without placeholder accepts the template
   itself and nothing else. *)
C3_literal_template_exact ==
    (pc = "matched" /\ ~HasColon(route_path)) =>
        (verdict <=> text = route_path)

(* C4: the matcher of a template with placeholders accepts every path that
   is the template with values in the place of the placeholders, and rejects
   a path that has fewer segments than the template or lacks one of its
   literal segments. *)
C4_placeholder_template ==
    (pc = "matched" /\ SegmentedTemplate(route_path) /\ HasPlaceholder(route_path)) =>
        LET ps == Segments(text)
            ts == Segments(route_path)
        IN  /\ Instance(text, route_path) => verdict
            /\ verdict =>
                  /\ Len(ps) >= Len(ts)
                  /\ \A i \in 1..Len(ts) :
                        ~IsPlaceholder(ts[i]) => \E j \in 1..Len(ps) : ps[j] = ts[i]

----------------------------------------------------------------------------
(* Properties of NickelError (SpecError) *)

FromFresh == {"new", "from_status_error", "from_string", "from_status"}

(* C5, as claimed: after construction from a Fresh response, whether the
   start succeeded or failed, the NickelError holds the stream, and ending it
   leaves the stream Ended, ended once. *)
C5_always_one_finalize ==
    ecall.op \in FromFresh =>
        /\ error.held = "live" => error.stream = conn.id
        /\ error.held = "moved" => (conn.state = "Ended" /\ end_calls = 1)
        /\ end_calls <= 1

(* C5, amended: when the start succeeds the NickelError holds the Started
   stream and ending it leaves the stream Ended, ended once; when the start
   fails the NickelError holds no stream and ending it ends nothing; in
   neither case is the stream ended twice. *)
C5_one_finalize_when_started ==
    ecall.op \in FromFresh =>
        /\ ecall.started =>
              /\ error.stream = conn.id
              /\ error.held = "live" => (conn.state = "Started" /\ end_calls = 0)
              /\ error.held = "moved" => (conn.state = "Ended" /\ end_calls = 1)
        /\ ~ecall.started =>
              /\ error.stream = NoStream
              /\ conn.state = "Fresh"
              /\ end_calls = 0
              /\ error.held = "moved" => end_ret = "None"
        /\ end_calls <= 1

(* A NickelError built on a started stream, then ended. *)
C5_witness ==
    /\ ecall.op \in FromFresh
    /\ ecall.started
    /\ error.held = "moved"
    /\ conn.state = "Ended"
    /\ end_calls = 1

(* C6: when the start succeeds, the NickelError of NickelError::new holds
   the stream, which is Started with the given status code, set before the
   start wrote it, and holds the given message. *)
C6_started_binding ==
    (ecall.op = "new" /\ ecall.started /\ error.held = "live") =>
        /\ error.stream = conn.id
        /\ conn.state = "Started"
        /\ conn.status = ecall.status_code
        /\ conn.sent = ecall.status_code
        /\ error.message = ecall.message

(* A NickelError built on a started stream with a message and a status code
   that are not the defaults. *)
C6_witness ==
    /\ ecall.op = "new"
    /\ ecall.started
    /\ error.held = "live"
    /\ ecall.message = "Error Parsing JSON"
    /\ conn.sent = 400

(* C7: when the start fails, NickelError::new returns the NickelError of the
   failure: its message is the transport's diagnostic, and the message given
   to new is nowhere in it. *)
C7_transport_failure_supersedes ==
    (ecall.op = "new" /\ ~ecall.started /\ error.held = "live") =>
        /\ error = Response_start(conn, FALSE, ecall.diag).err
        /\ error.message = ecall.diag
        /\ error.message # ecall.message
        /\ error.stream # ecall.message

(* A NickelError of a failed start. *)
C7_witness ==
    /\ ecall.op = "new"
    /\ ~ecall.started
    /\ error.held = "live"
    /\ ecall.message = "Error Parsing JSON"
    /\ error.message = "Failed to start response: broken pipe"

(* C8: end on a NickelError that holds a stream calls the stream's end once
   and returns its outcome in Some; end on a NickelError of without_response
   returns None and does nothing to any stream. *)
C8_end_result ==
    [][(error.held = "live" /\ error'.held = "moved") =>
          /\ error.stream # NoStream =>
                /\ end_calls' = end_calls + 1
                /\ end_ret' = "Some(" \o io' \o ")"
          /\ (ecall.op = "without_response" \/ error.stream = NoStream) =>
                /\ end_ret' = "None"
                /\ conn' = conn
                /\ end_calls' = end_calls]_vars

(* An end whose flush failed, reported in Some. *)
C8_witness ==
    /\ error.held = "moved"
    /\ error.stream # NoStream
    /\ end_ret = "Some(Err(io))"
    /\ end_calls = 1

====
